---- MODULE Spec2Model ----
(***************************************************************************)
(* A model of the block chain of src/src/block.rs: BlockChain (blocks,     *)
(* height, utxo_set), Block, Transaction, TxIn and TxOut, and of the       *)
(* caller that builds a block and hands it to BlockChain::add_block.       *)
(*                                                                         *)
(* Strings are TLA+ strings.  hex::encode(Sha256(..)) is modelled as the   *)
(* injective symbolic digest "sha256(<bytes fed to the hasher>)": the      *)
(* bytes are concatenated exactly as the code feeds them (no separators,  *)
(* integers in decimal), and the digest of anything is a non-empty string *)
(* that differs from the digest of any other byte string.                  *)
(***************************************************************************)
EXTENDS Integers, Sequences, FiniteSets, TLC

VARIABLES chain, blk, last, mres, mlog

vars == <<chain, blk, last, mres, mlog>>

(* the variables of the MResult tests of src/src/mresult.rs *)
mvars == <<mres, mlog>>

(* the variables of the chain and its caller *)
cvars == <<chain, blk, last>>

----------------------------------------------------------------------------
(* Bounds of the model *)

MaxBlocks == 3      \* blocks the chain may hold
MaxTxs    == 2      \* transactions the caller creates in all
MaxHeight == 1      \* largest height the caller assigns to a block
MaxNonce  == 1      \* largest nonce the caller assigns to a block
MaxPayload == 2     \* largest value or error wrapped into an MResult

----------------------------------------------------------------------------
(* Option<T>: None is the empty sequence, Some(x) the one-element sequence *)

None == <<>>

Some(x) == <<x>>

(* hex::encode(hasher.finalize()) over the bytes fed to the hasher *)
Sha256Hex(bytes) == "sha256(" \o bytes \o ")"

----------------------------------------------------------------------------
(* TxIn, TxOut, Transaction *)

TxIn_new(prev_txid, out, signature) ==
    [prev_txid |-> prev_txid, out |-> out, signature |-> signature]

TxOut_new(public_address, satoshis) ==
    [public_address |-> public_address, satoshis |-> satoshis]

RECURSIVE InputBytes(_)
InputBytes(inputs) ==
    IF inputs = <<>> THEN ""
    ELSE Head(inputs).prev_txid \o ToString(Head(inputs).out)
           \o Head(inputs).signature \o InputBytes(Tail(inputs))

RECURSIVE OutputBytes(_)
OutputBytes(outputs) ==
    IF outputs = <<>> THEN ""
    ELSE Head(outputs).public_address \o ToString(Head(outputs).satoshis)
           \o OutputBytes(Tail(outputs))

calculate_txid(tx) == Sha256Hex(InputBytes(tx.inputs) \o OutputBytes(tx.outputs))

(* Transaction::new that leaves the id as String::new() *)
Transaction_new_noid(inputs, outputs) ==
    [txid |-> "", inputs |-> inputs, outputs |-> outputs]

Transaction_new(inputs, outputs) ==
    LET tx == [txid |-> "", inputs |-> inputs, outputs |-> outputs]
    IN  [tx EXCEPT !.txid = calculate_txid(tx)]

----------------------------------------------------------------------------
(* Block *)

Block_new(prev_hash) ==
    [hash |-> "", height |-> 0, transactions |-> <<>>,
     prev_hash |-> prev_hash, nonce |-> 0]

RECURSIVE TxidBytes(_)
TxidBytes(txs) ==
    IF txs = <<>> THEN "" ELSE Head(txs).txid \o TxidBytes(Tail(txs))

(* calculate_hash that also feeds the ids of the transactions to the hasher *)
calculate_hash_withtxs(b) ==
    Sha256Hex(ToString(b.height) \o b.prev_hash \o ToString(b.nonce)
                \o TxidBytes(b.transactions))

calculate_hash(b) ==
    Sha256Hex(ToString(b.height) \o b.prev_hash \o ToString(b.nonce))

(* add_transaction without the recomputation of the hash *)
add_transaction_norehash(b, transaction) ==
    [b EXCEPT !.transactions = <<transaction>> \o b.transactions]

(* add_transaction with push_back in the place of push_front *)
add_transaction_back(b, transaction) ==
    LET pushed == [b EXCEPT !.transactions = Append(b.transactions, transaction)]
    IN  [pushed EXCEPT !.hash = calculate_hash(pushed)]

add_transaction(b, transaction) ==
    LET pushed == [b EXCEPT !.transactions = <<transaction>> \o b.transactions]
    IN  [pushed EXCEPT !.hash = calculate_hash(pushed)]

(* self.transactions.iter().find(|tx| tx.txid == txid) *)
RECURSIVE find_txid(_, _)
find_txid(txs, txid) ==
    IF txs = <<>> THEN None
    ELSE IF Head(txs).txid = txid THEN Some(Head(txs))
    ELSE find_txid(Tail(txs), txid)

Block_get_transaction(b, txid) == find_txid(b.transactions, txid)

----------------------------------------------------------------------------
(* HashMap<String, TxOut> as a function from its keys *)

HashMap_new == [k \in {} |-> 0]

HashMap_remove(m, key) == [k \in DOMAIN m \ {key} |-> m[k]]

HashMap_insert(m, key, value) ==
    [k \in DOMAIN m \cup {key} |-> IF k = key THEN value ELSE m[k]]

----------------------------------------------------------------------------
(* BlockChain *)

(* BlockChain::new that starts the chain with a block of its own *)
BlockChain_new_genesis ==
    [blocks |-> <<Block_new("")>>, height |-> 1, utxo_set |-> HashMap_new]

BlockChain_new == [blocks |-> <<>>, height |-> 0, utxo_set |-> HashMap_new]

RECURSIVE find_hash(_, _)
find_hash(blocks, hash) ==
    IF blocks = <<>> THEN None
    ELSE IF Head(blocks).hash = hash THEN Some(Head(blocks))
    ELSE find_hash(Tail(blocks), hash)

(* get_block_by_hash that compares the prev_hash field of the blocks *)
get_block_by_hash_prevfield(self, hash) ==
    IF \E i \in 1..Len(self.blocks) : self.blocks[i].prev_hash = hash
    THEN Some(CHOOSE b \in {self.blocks[i] : i \in 1..Len(self.blocks)} :
                  b.prev_hash = hash)
    ELSE None

get_block_by_hash(self, hash) == find_hash(self.blocks, hash)

(* is_valid_block without the linkage check *)
is_valid_block_nolink(self, block) == TRUE

(* is_valid_block with the genesis exception on the empty chain only *)
is_valid_block_firstonly(self, block) ==
    IF block.height > 0 \/ self.blocks # <<>>
    THEN get_block_by_hash(self, block.prev_hash) # None
    ELSE TRUE

(* is_valid_block with the linkage checked against the last block only *)
is_valid_block_tip(self, block) ==
    IF block.height > 0
    THEN self.blocks # <<>> /\ self.blocks[Len(self.blocks)].hash = block.prev_hash
    ELSE TRUE

is_valid_block(self, block) ==
    IF block.height > 0
    THEN get_block_by_hash(self, block.prev_hash) # None
    ELSE TRUE

get_block_count(self) == Len(self.blocks)

get_best_block_hash(self) ==
    IF self.blocks = <<>> THEN None
    ELSE Some(self.blocks[Len(self.blocks)].hash)

(* self.blocks.iter().nth(height) *)
RECURSIVE nth(_, _)
nth(blocks, n) ==
    IF blocks = <<>> THEN None
    ELSE IF n = 0 THEN Some(Head(blocks))
    ELSE nth(Tail(blocks), n - 1)

(* get_block_by_height that looks for the block whose height field matches *)
get_block_by_height_field(self, height) ==
    IF \E i \in 1..Len(self.blocks) : self.blocks[i].height = height
    THEN Some(self.blocks[CHOOSE i \in 1..Len(self.blocks) :
                             self.blocks[i].height = height])
    ELSE None

get_block_by_height(self, height) == nth(self.blocks, height)

(* for block in &self.blocks { if let Some(tx) = block.get_transaction(txid)
     { return Some(tx); } } None *)
RECURSIVE scan_blocks(_, _)
scan_blocks(blocks, txid) ==
    IF blocks = <<>> THEN None
    ELSE IF Block_get_transaction(Head(blocks), txid) # None
         THEN Block_get_transaction(Head(blocks), txid)
         ELSE scan_blocks(Tail(blocks), txid)

(* get_transaction that returns what the first block answers *)
get_transaction_firstblock(self, txid) ==
    IF self.blocks = <<>> THEN None
    ELSE Block_get_transaction(Head(self.blocks), txid)

get_transaction(self, txid) == scan_blocks(self.blocks, txid)

(* for txin in &tx.inputs { self.utxo_set.remove(&txin.prev_txid); } *)
RECURSIVE remove_inputs(_, _)
remove_inputs(utxo, inputs) ==
    IF inputs = <<>> THEN utxo
    ELSE remove_inputs(HashMap_remove(utxo, Head(inputs).prev_txid), Tail(inputs))

(* for (idx, txout) in tx.outputs.iter().enumerate()
     { self.utxo_set.insert(tx.calculate_txid(), txout.clone()); }
   idx is the position of the output; the code does not use it *)
(* the loop over the outputs with the address of the output as the key *)
RECURSIVE insert_outputs_byaddress(_, _, _, _)
insert_outputs_byaddress(utxo, tx, outputs, idx) ==
    IF outputs = <<>> THEN utxo
    ELSE insert_outputs_byaddress(
             HashMap_insert(utxo, Head(outputs).public_address, Head(outputs)),
             tx, Tail(outputs), idx + 1)

RECURSIVE insert_outputs(_, _, _, _)
insert_outputs(utxo, tx, outputs, idx) ==
    IF outputs = <<>> THEN utxo
    ELSE insert_outputs(HashMap_insert(utxo, calculate_txid(tx), Head(outputs)),
                        tx, Tail(outputs), idx + 1)

(* the loop over the transactions from the back of the list *)
RECURSIVE apply_transactions_rev(_, _)
apply_transactions_rev(utxo, txs) ==
    IF txs = <<>> THEN utxo
    ELSE LET tx == txs[Len(txs)]
         IN  apply_transactions_rev(
                 insert_outputs(remove_inputs(utxo, tx.inputs), tx, tx.outputs, 0),
                 SubSeq(txs, 1, Len(txs) - 1))

(* for tx in &block.transactions { ... } *)
RECURSIVE apply_transactions(_, _)
apply_transactions(utxo, txs) ==
    IF txs = <<>> THEN utxo
    ELSE LET tx == Head(txs)
         IN  apply_transactions(
                 insert_outputs(remove_inputs(utxo, tx.inputs), tx, tx.outputs, 0),
                 Tail(txs))

(* add_block that forgets self.height += 1 *)
add_block_noheight(self, block) ==
    IF is_valid_block(self, block)
    THEN [blocks   |-> Append(self.blocks, block),
          height   |-> self.height,
          utxo_set |-> apply_transactions(self.utxo_set, block.transactions)]
    ELSE self

(* add_block that updates the UTXO set before it looks at the validity *)
add_block_eager(self, block) ==
    LET utxo == apply_transactions(self.utxo_set, block.transactions)
    IN  IF is_valid_block(self, block)
        THEN [blocks   |-> Append(self.blocks, block),
              height   |-> self.height + 1,
              utxo_set |-> utxo]
        ELSE [self EXCEPT !.utxo_set = utxo]

(* add_block with push_front in the place of push_back *)
add_block_front(self, block) ==
    IF is_valid_block(self, block)
    THEN [blocks   |-> <<block>> \o self.blocks,
          height   |-> self.height + 1,
          utxo_set |-> apply_transactions(self.utxo_set, block.transactions)]
    ELSE self

(* add_block that drops the blocks after the one the new block links to *)
add_block_reorg(self, block) ==
    IF is_valid_block(self, block)
    THEN LET parents == {i \in 1..Len(self.blocks) :
                            self.blocks[i].hash = block.prev_hash}
             keep == IF block.height > 0
                     THEN CHOOSE i \in parents : \A j \in parents : j <= i
                     ELSE Len(self.blocks)
         IN  [blocks   |-> Append(SubSeq(self.blocks, 1, keep), block),
              height   |-> keep + 1,
              utxo_set |-> apply_transactions(self.utxo_set, block.transactions)]
    ELSE self

(* add_block that turns down a block with an input the index does not hold *)
add_block_strict(self, block) ==
    IF /\ is_valid_block(self, block)
       /\ \A k \in 1..Len(block.transactions) :
              \A i \in 1..Len(block.transactions[k].inputs) :
                  block.transactions[k].inputs[i].prev_txid \in DOMAIN self.utxo_set
    THEN [blocks   |-> Append(self.blocks, block),
          height   |-> self.height + 1,
          utxo_set |-> apply_transactions(self.utxo_set, block.transactions)]
    ELSE self

add_block(self, block) ==
    IF is_valid_block(self, block)
    THEN [blocks   |-> Append(self.blocks, block),
          height   |-> self.height + 1,
          utxo_set |-> apply_transactions(self.utxo_set, block.transactions)]
    ELSE self

----------------------------------------------------------------------------
(* MResult<T, E> of src/src/mresult.rs: the variant and what it wraps *)

MResult_ok(value) == [tag |-> "Ok", wrapped |-> value]

MResult_err(error) == [tag |-> "Err", wrapped |-> error]

(* what a call hands back: a bool, the wrapped value, or a panic *)
ReturnsBool(b) == [kind |-> "bool", b |-> b, v |-> 0, msg |-> ""]

ReturnsValue(v) == [kind |-> "value", b |-> FALSE, v |-> v, msg |-> ""]

Panics(msg) == [kind |-> "panic", b |-> FALSE, v |-> 0, msg |-> msg]

MResult_is_ok(self) == self.tag = "Ok"

(* is_err with the arms of is_ok *)
MResult_is_err_asok(self) == self.tag = "Ok"

MResult_is_err(self) == self.tag = "Err"

MResult_unwrap(self) ==
    IF self.tag = "Ok" THEN ReturnsValue(self.wrapped) ELSE Panics("Error value")

MResult_unwrap_err(self) ==
    IF self.tag = "Ok" THEN Panics("Ok Value") ELSE ReturnsValue(self.wrapped)

----------------------------------------------------------------------------
(* The values the caller works with *)

(* prev_hash strings: the literal of the tests and the hashes the chain
   reports for its blocks (the empty string among them, once the chain holds
   a block that never had a transaction added) *)
PrevHashes(self) ==
    {"prev_hash1"} \cup {self.blocks[i].hash : i \in 1..Len(self.blocks)}

(* no input, two outputs *)
Issuance ==
    Transaction_new(<<>>, <<TxOut_new("public_address", 100),
                            TxOut_new("other_address", 50)>>)

(* the transaction of the tests: its input names an output nobody created *)
TestTransaction ==
    Transaction_new(<<TxIn_new("prev_output", 0, "signature")>>,
                    <<TxOut_new("public_address", 100)>>)

(* transactions that spend an entry of the index, into one output or none *)
Spends(self) ==
    {Transaction_new(<<TxIn_new(t, 0, "signature")>>, outs) :
        t \in DOMAIN self.utxo_set,
        outs \in {<<>>, <<TxOut_new("other_address", 50)>>}}

(* transactions that spend, into no output, what a transaction already in
   the caller's block creates *)
ChainedSpends(b) ==
    {Transaction_new(<<TxIn_new(b.transactions[k].txid, 0, "signature")>>, <<>>) :
        k \in {n \in 1..Len(b.transactions) : b.transactions[n].outputs # <<>>}}

Transactions(self) == {Issuance, TestTransaction} \cup Spends(self)

----------------------------------------------------------------------------
(* The state machine *)

RECURSIVE CountTxs(_)
CountTxs(blocks) ==
    IF blocks = <<>> THEN 0
    ELSE Len(Head(blocks).transactions) + CountTxs(Tail(blocks))

NoCall == [op |-> "none", pre |-> BlockChain_new, block |-> None]

NoQuery == [op |-> "none", self |-> None, ret |-> ReturnsBool(FALSE)]

Payloads == 0..MaxPayload

Init ==
    /\ chain = BlockChain_new
    /\ blk = None
    /\ last = NoCall
    /\ mres = None
    /\ mlog = NoQuery

(* let mut block = Block::new(prev_hash) *)
NewBlock ==
    /\ blk = None
    /\ \E prev_hash \in PrevHashes(chain) :
          blk' = Some(Block_new(prev_hash))
    /\ last' = NoCall
    /\ UNCHANGED chain
    /\ UNCHANGED mvars

(* block.height = h : height is a public field *)
SetHeight ==
    /\ blk # None
    /\ \E h \in 0..MaxHeight :
          /\ h # blk[1].height
          /\ blk' = Some([blk[1] EXCEPT !.height = h])
    /\ last' = NoCall
    /\ UNCHANGED chain
    /\ UNCHANGED mvars

(* the block producer of the chain supplies the height before it adds the
   transactions *)
PlaceBlock ==
    /\ blk # None
    /\ blk[1].transactions = <<>>
    /\ SetHeight

(* block.nonce = n : nonce is a public field *)
SetNonce ==
    /\ blk # None
    /\ \E n \in 0..MaxNonce :
          /\ n # blk[1].nonce
          /\ blk' = Some([blk[1] EXCEPT !.nonce = n])
    /\ last' = NoCall
    /\ UNCHANGED chain
    /\ UNCHANGED mvars

(* block.prev_hash = p : prev_hash is a public field *)
SetPrevHash ==
    /\ blk # None
    /\ \E p \in PrevHashes(chain) \cup {"prev_hash2"} :
          /\ p # blk[1].prev_hash
          /\ blk' = Some([blk[1] EXCEPT !.prev_hash = p])
    /\ last' = NoCall
    /\ UNCHANGED chain
    /\ UNCHANGED mvars

(* block.add_transaction(Transaction::new(inputs, outputs)) *)
AddTransaction ==
    /\ blk # None
    /\ CountTxs(chain.blocks) + Len(blk[1].transactions) < MaxTxs
    /\ \E tx \in Transactions(chain) \cup ChainedSpends(blk[1]) :
          blk' = Some(add_transaction(blk[1], tx))
    /\ last' = NoCall
    /\ UNCHANGED chain
    /\ UNCHANGED mvars

(* blockchain.add_block(block) : the block is moved into the call *)
AddBlock ==
    /\ blk # None
    /\ Len(chain.blocks) < MaxBlocks
    /\ chain' = add_block(chain, blk[1])
    /\ last' = [op |-> "add_block", pre |-> chain, block |-> blk]
    /\ blk' = None
    /\ UNCHANGED mvars

(* the block goes out of scope without having been submitted *)
DropBlock ==
    /\ blk # None
    /\ blk' = None
    /\ last' = NoCall
    /\ UNCHANGED chain
    /\ UNCHANGED mvars

(* let result = MResult::ok(value) *)
MOk ==
    /\ \E value \in Payloads :
          mres' = Some([val |-> MResult_ok(value), built |-> "ok", arg |-> value])
    /\ UNCHANGED <<mlog, cvars>>

(* let result = MResult::err(error) *)
MErr ==
    /\ \E error \in Payloads :
          mres' = Some([val |-> MResult_err(error), built |-> "err", arg |-> error])
    /\ UNCHANGED <<mlog, cvars>>

(* result.is_ok() : borrows the value *)
MIsOk ==
    /\ mres # None
    /\ mlog' = [op |-> "is_ok", self |-> mres,
                ret |-> ReturnsBool(MResult_is_ok(mres[1].val))]
    /\ UNCHANGED <<mres, cvars>>

(* result.is_err() : borrows the value *)
MIsErr ==
    /\ mres # None
    /\ mlog' = [op |-> "is_err", self |-> mres,
                ret |-> ReturnsBool(MResult_is_err(mres[1].val))]
    /\ UNCHANGED <<mres, cvars>>

(* result.unwrap() : takes the value *)
MUnwrap ==
    /\ mres # None
    /\ mlog' = [op |-> "unwrap", self |-> mres, ret |-> MResult_unwrap(mres[1].val)]
    /\ mres' = None
    /\ UNCHANGED cvars

(* result.unwrap_err() : takes the value *)
MUnwrapErr ==
    /\ mres # None
    /\ mlog' = [op |-> "unwrap_err", self |-> mres,
                ret |-> MResult_unwrap_err(mres[1].val)]
    /\ mres' = None
    /\ UNCHANGED cvars

(* The tests of MResult *)
NextMResult ==
    \/ MOk
    \/ MErr
    \/ MIsOk
    \/ MIsErr
    \/ MUnwrap
    \/ MUnwrapErr

MResultSpec == Init /\ [][NextMResult]_vars

(* The chain and its block producer, which builds a block in the order
   Block::new, height, transactions, add_block.  The nonce of a block stays
   the 0 of Block::new: nothing in the repository assigns it. *)
Next ==
    \/ NewBlock
    \/ PlaceBlock
    \/ AddTransaction
    \/ AddBlock

Spec == Init /\ [][Next]_vars

(* The life of one block in the hands of any caller, before submission:
   height, nonce and prev_hash are assigned at any time, before or after the
   transactions are added. *)
NextBlock ==
    \/ NewBlock
    \/ SetHeight
    \/ SetNonce
    \/ SetPrevHash
    \/ AddTransaction
    \/ DropBlock

BlockSpec == Init /\ [][NextBlock]_vars

----------------------------------------------------------------------------
(* Vocabulary of the properties *)

(* the last call was add_block(b) on the chain pre *)
AddBlockCalled == last.op = "add_block"

b_last == last.block[1]

(* some block of the sequence has this hash *)
HasHash(blocks, hash) == \E i \in 1..Len(blocks) : blocks[i].hash = hash

(* the acceptance rule: height 0, or prev_hash is the hash of a known block *)
Linked(self, b) == b.height = 0 \/ HasHash(self.blocks, b.prev_hash)

(* what a lookup of the output (txid, idx) finds in the index, whose keys
   are transaction ids *)
UtxoGet(utxo, txid, idx) == IF txid \in DOMAIN utxo THEN Some(utxo[txid]) ELSE None

(* the entries of the index that belong to the outputs of txid *)
EntriesOf(utxo, txid) == {k \in DOMAIN utxo : k = txid}

(* the outputs created minus the outputs consumed, transaction by
   transaction: a set of <<txid, position>> *)
RECURSIVE UnspentAfter(_, _)
UnspentAfter(unspent, txs) ==
    IF txs = <<>> THEN unspent
    ELSE LET tx == Head(txs)
             consumed == {<<tx.inputs[i].prev_txid, tx.inputs[i].out>> :
                             i \in 1..Len(tx.inputs)}
             created == {<<calculate_txid(tx), i - 1>> : i \in 1..Len(tx.outputs)}
         IN  UnspentAfter((unspent \ consumed) \cup created, Tail(txs))

RECURSIVE AllTransactions(_)
AllTransactions(blocks) ==
    IF blocks = <<>> THEN <<>>
    ELSE Head(blocks).transactions \o AllTransactions(Tail(blocks))

Unspent(self) == UnspentAfter({}, AllTransactions(self.blocks))

(* every output a transaction of the chain has created *)
Created(self) ==
    LET txs == AllTransactions(self.blocks)
    IN  UNION {{<<calculate_txid(txs[k]), i - 1>> : i \in 1..Len(txs[k].outputs)} :
                  k \in 1..Len(txs)}

----------------------------------------------------------------------------
(* C1: when add_block accepts a block, the entries its inputs reference are
   removed and every output gets an entry of its own under (txid, position):
   a transaction with n outputs leaves n entries and the lookup of each
   position returns the TxOut supplied there.  Stated for the accepted
   blocks with a single transaction, where no other transaction of the
   block touches these entries. *)
C1_OneEntryPerOutput ==
    (AddBlockCalled /\ Linked(last.pre, b_last) /\ Len(b_last.transactions) = 1) =>
        LET tx == b_last.transactions[1]
            txid == calculate_txid(tx)
        IN  /\ \A i \in 1..Len(tx.inputs) :
                   tx.inputs[i].prev_txid \notin DOMAIN chain.utxo_set
            /\ Cardinality(EntriesOf(chain.utxo_set, txid)) = Len(tx.outputs)
            /\ \A i \in 1..Len(tx.outputs) :
                   UtxoGet(chain.utxo_set, txid, i - 1) = Some(tx.outputs[i])

(* C2: the index has an entry for an output exactly when the output was
   created by a transaction of an accepted block and no input processed
   after it consumed it.  An output counts as having an entry as soon as its
   transaction id is a key of the index. *)
C2_IndexIsUnspent ==
    /\ \A o \in Created(chain) :
           UtxoGet(chain.utxo_set, o[1], o[2]) # None <=> o \in Unspent(chain)
    /\ \A k \in DOMAIN chain.utxo_set : \E o \in Created(chain) : o[1] = k

(* C3: the height counter equals the number of blocks of the chain, after
   accepted and rejected calls alike. *)
C3_HeightIsCount == chain.height = get_block_count(chain)

C3_Witness ==
    /\ AddBlockCalled
    /\ ~Linked(last.pre, b_last)
    /\ get_block_count(chain) >= 2

(* C4: every block of the chain with height > 0 has the hash of an earlier
   block of the chain as its prev_hash. *)
C4_LinkedToEarlier ==
    \A i \in 1..Len(chain.blocks) :
        chain.blocks[i].height > 0 =>
            \E j \in 1..(i - 1) : chain.blocks[j].hash = chain.blocks[i].prev_hash

C4_Witness ==
    \E i \in 1..Len(chain.blocks) :
        /\ chain.blocks[i].height > 0
        /\ chain.blocks[i].prev_hash # ""

(* C5: a block with height 0 is accepted whatever its prev_hash and whatever
   the chain holds: the count grows by exactly one. *)
C5_GenesisAccepted ==
    (AddBlockCalled /\ b_last.height = 0) =>
        /\ get_block_count(chain) = get_block_count(last.pre) + 1
        /\ chain.blocks[Len(chain.blocks)] = b_last

(* two blocks fresh from Block::new, with prev_hash values that match
   nothing, give a count of 2 *)
C5_Witness ==
    /\ AddBlockCalled
    /\ get_block_count(chain) = 2
    /\ \A i \in 1..2 :
          /\ chain.blocks[i].height = 0
          /\ chain.blocks[i].hash = ""
          /\ chain.blocks[i].transactions = <<>>
          /\ chain.blocks[i].prev_hash = "prev_hash1"

(* C6: for a block with height > 0, is_valid_block is true exactly when some
   block of the chain, at any position, has the candidate's prev_hash as its
   hash, and add_block appends the block exactly then. *)
C6_ValidIffKnownHash ==
    /\ (blk # None /\ blk[1].height > 0) =>
           (is_valid_block(chain, blk[1]) <=> HasHash(chain.blocks, blk[1].prev_hash))
    /\ (AddBlockCalled /\ b_last.height > 0) =>
           IF HasHash(last.pre.blocks, b_last.prev_hash)
           THEN chain.blocks = Append(last.pre.blocks, b_last)
           ELSE chain.blocks = last.pre.blocks

(* a block was appended whose prev_hash is the hash of a block that was not
   the last one *)
C6_Witness ==
    /\ AddBlockCalled
    /\ b_last.height > 0
    /\ get_block_count(chain) = get_block_count(last.pre) + 1
    /\ get_best_block_hash(last.pre) # Some(b_last.prev_hash)

(* C7: a block with height > 0 is accepted only when its prev_hash equals
   get_best_block_hash() at the time of the call. *)
C7_LinkedToTip ==
    (/\ AddBlockCalled
     /\ b_last.height > 0
     /\ get_block_count(chain) = get_block_count(last.pre) + 1) =>
        get_best_block_hash(last.pre) = Some(b_last.prev_hash)

(* C7, amended: a block with height > 0 is accepted only when its prev_hash
   equals the hash of some block the chain held at the time of the call,
   the last one or an earlier one. *)
C7_LinkedToSomeBlock ==
    (/\ AddBlockCalled
     /\ b_last.height > 0
     /\ get_block_count(chain) = get_block_count(last.pre) + 1) =>
        \E i \in 1..Len(last.pre.blocks) :
            last.pre.blocks[i].hash = b_last.prev_hash

C7_Witness ==
    /\ AddBlockCalled
    /\ b_last.height > 0
    /\ get_block_count(chain) = 3
    /\ last.pre.blocks[1].hash = b_last.prev_hash
    /\ last.pre.blocks[2].hash # b_last.prev_hash

(* C8: a rejected add_block (height > 0, prev_hash the hash of no block)
   leaves the block sequence, the count, the height and the UTXO index as
   they were, also when the block carries transactions. *)
C8_RejectedUnchanged ==
    (AddBlockCalled /\ ~Linked(last.pre, b_last)) =>
        /\ chain.blocks = last.pre.blocks
        /\ get_block_count(chain) = get_block_count(last.pre)
        /\ chain.height = last.pre.height
        /\ chain.utxo_set = last.pre.utxo_set

(* the rejected block carried a transaction with an input that names an
   entry of the index and with an output *)
C8_Witness ==
    /\ AddBlockCalled
    /\ ~Linked(last.pre, b_last)
    /\ last.pre.blocks # <<>>
    /\ \E k \in 1..Len(b_last.transactions) :
          LET tx == b_last.transactions[k]
          IN  /\ tx.outputs # <<>>
              /\ \E i \in 1..Len(tx.inputs) :
                     tx.inputs[i].prev_txid \in DOMAIN last.pre.utxo_set

(* C9: an accepted add_block(b) raises the count by exactly 1 and makes
   b.hash the answer of get_best_block_hash(). *)
C9_AcceptedIsTip ==
    (AddBlockCalled /\ Linked(last.pre, b_last)) =>
        /\ get_block_count(chain) = get_block_count(last.pre) + 1
        /\ get_best_block_hash(chain) = Some(b_last.hash)

(* b1 accepted, then b2 with b2.prev_hash = b1.hash: count 2, tip b2.hash *)
C9_Witness ==
    /\ AddBlockCalled
    /\ get_block_count(last.pre) = 1
    /\ b_last.height > 0
    /\ b_last.prev_hash = last.pre.blocks[1].hash
    /\ b_last.hash # last.pre.blocks[1].hash
    /\ get_block_count(chain) = 2
    /\ get_best_block_hash(chain) = Some(b_last.hash)

(* C10: at every point of a block's life, in the caller's hands and in the
   chain, recomputing the hash from (height, prev_hash, nonce) yields the
   block's hash. *)
C10_HashAlwaysCurrent ==
    /\ blk # None => blk[1].hash = calculate_hash(blk[1])
    /\ \A i \in 1..Len(chain.blocks) :
           chain.blocks[i].hash = calculate_hash(chain.blocks[i])

(* a step that added a transaction to the caller's block *)
AddTransactionStep ==
    /\ blk # None
    /\ blk' # None
    /\ Len(blk'[1].transactions) = Len(blk[1].transactions) + 1

(* a step that left the transactions of the caller's block alone *)
AssignStep ==
    /\ blk # None
    /\ blk' # None
    /\ blk'[1].transactions = blk[1].transactions

(* C10, amended: when add_transaction returns, recomputing the hash from
   (height, prev_hash, nonce) yields the block's hash; Block::new leaves the
   hash empty, and an assignment to height, nonce or prev_hash leaves the
   hash as it was. *)
C10_HashCurrentAfterAddTransaction ==
    [][/\ AddTransactionStep => blk'[1].hash = calculate_hash(blk'[1])
       /\ (blk = None /\ blk' # None) => blk'[1].hash = ""
       /\ AssignStep => blk'[1].hash = blk[1].hash]_vars

(* a block whose hash add_transaction computed from a height and a nonce
   that are not those of Block::new *)
C10_Witness ==
    /\ blk # None
    /\ blk[1].transactions # <<>>
    /\ blk[1].height > 0
    /\ blk[1].nonce > 0
    /\ blk[1].hash = calculate_hash(blk[1])

(* the transactions of the blocks of a sequence, as a set *)
TransactionsIn(blocks) ==
    UNION {{blocks[i].transactions[k] : k \in 1..Len(blocks[i].transactions)} :
              i \in 1..Len(blocks)}

(* C11: the hash of a block does not depend on its transactions: whatever
   transaction add_transaction is given, the hash it leaves is the same, so
   blocks that differ only in their transactions have equal hashes; and a
   further add_transaction on a block whose height, prev_hash and nonce were
   not touched since the previous one leaves the hash unchanged. *)
C11_HashIgnoresTransactions ==
    [][AddTransactionStep =>
          /\ \A tx \in Transactions(chain) \cup ChainedSpends(blk[1]) :
                 add_transaction(blk[1], tx).hash = blk'[1].hash
          /\ (blk[1].transactions # <<>> /\ blk[1].hash = calculate_hash(blk[1]))
                 => blk'[1].hash = blk[1].hash]_vars

(* two different transactions in a block whose hash is the one the first
   add_transaction left *)
C11_Witness ==
    /\ blk # None
    /\ Len(blk[1].transactions) = 2
    /\ blk[1].transactions[1] # blk[1].transactions[2]
    /\ blk[1].hash = add_transaction(Block_new(blk[1].prev_hash), Issuance).hash
    /\ blk[1].hash = add_transaction(Block_new(blk[1].prev_hash), TestTransaction).hash

(* C12: every transaction made by Transaction::new, with or without inputs
   and outputs, has the id calculate_txid recomputes from its inputs and
   outputs, and the id is not empty; transactions with equal inputs and
   outputs have equal ids. *)
C12_TxidIsRecomputed ==
    LET made == TransactionsIn(chain.blocks) \cup TransactionsIn(blk)
                  \cup {Transaction_new(<<>>, <<>>)}
    IN  /\ \A t \in made : t.txid = calculate_txid(t) /\ t.txid # ""
        /\ \A t, u \in made :
               (t.inputs = u.inputs /\ t.outputs = u.outputs) => t.txid = u.txid

(* the chain holds a transaction without inputs and one without outputs *)
C12_Witness ==
    /\ \E t \in TransactionsIn(chain.blocks) : t.inputs = <<>> /\ t.outputs # <<>>
    /\ \E t \in TransactionsIn(chain.blocks) : t.inputs # <<>> /\ t.outputs = <<>>

(* the arguments the queries are tried with *)
QueryHashes ==
    PrevHashes(chain) \cup {"", "prev_hash2"}
      \cup {blk[i].hash : i \in 1..Len(blk)} \cup {blk[i].prev_hash : i \in 1..Len(blk)}

QueryHeights == 0..(MaxBlocks + 1)

(* C13: on a freshly constructed chain the block count is 0, the best block
   hash is absent and the lookups by hash and by height find nothing,
   whatever the argument. *)
C13_FreshChainIsEmpty ==
    chain = BlockChain_new =>
        /\ get_block_count(chain) = 0
        /\ get_best_block_hash(chain) = None
        /\ \A h \in QueryHashes : get_block_by_hash(chain, h) = None
        /\ \A n \in QueryHeights : get_block_by_height(chain, n) = None

(* the fresh chain, asked for the hash of a block the caller has built *)
C13_Witness ==
    /\ chain = BlockChain_new
    /\ blk # None
    /\ blk[1].hash # ""

(* C14: the chain is append-only: every step leaves the blocks it held where
   they were, unchanged, as a prefix of the new sequence, and the count
   never decreases. *)
C14_AppendOnly ==
    [][/\ Len(chain'.blocks) >= Len(chain.blocks)
       /\ SubSeq(chain'.blocks, 1, Len(chain.blocks)) = chain.blocks
       /\ get_block_count(chain') >= get_block_count(chain)]_vars

(* a third block was appended behind two that stayed *)
C14_Witness ==
    /\ AddBlockCalled
    /\ get_block_count(last.pre) = 2
    /\ get_block_count(chain) = 3
    /\ SubSeq(chain.blocks, 1, 2) = last.pre.blocks
    /\ b_last.height > 0
    /\ b_last.prev_hash = last.pre.blocks[1].hash

(* C15: exactly one of is_ok and is_err is true of an MResult, is_ok of one
   built by ok and is_err of one built by err; unwrap of ok(v) returns v and
   unwrap_err of err(e) returns e; unwrap of an Err and unwrap_err of an Ok
   panic. *)
C15_MResultVariants ==
    /\ mres # None =>
          /\ MResult_is_ok(mres[1].val) # MResult_is_err(mres[1].val)
          /\ MResult_is_ok(mres[1].val) <=> mres[1].built = "ok"
          /\ MResult_is_err(mres[1].val) <=> mres[1].built = "err"
    /\ mlog.op = "is_ok" => mlog.ret = ReturnsBool(mlog.self[1].built = "ok")
    /\ mlog.op = "is_err" => mlog.ret = ReturnsBool(mlog.self[1].built = "err")
    /\ mlog.op = "unwrap" =>
          IF mlog.self[1].built = "ok"
          THEN mlog.ret = ReturnsValue(mlog.self[1].arg)
          ELSE mlog.ret.kind = "panic"
    /\ mlog.op = "unwrap_err" =>
          IF mlog.self[1].built = "err"
          THEN mlog.ret = ReturnsValue(mlog.self[1].arg)
          ELSE mlog.ret.kind = "panic"

(* unwrap_err has just panicked on an Ok, and the test holds a new Err *)
C15_Witness ==
    /\ mlog.op = "unwrap_err"
    /\ mlog.self[1].built = "ok"
    /\ mlog.ret.kind = "panic"
    /\ mres # None
    /\ mres[1].built = "err"
    /\ mres[1].arg > 0

(* what one pass of the loop body of add_block does for one transaction *)
ProcessOne(utxo, tx) ==
    insert_outputs(remove_inputs(utxo, tx.inputs), tx, tx.outputs, 0)

(* C16: add_transaction puts the transaction at the front of the list, makes
   the list one longer and recomputes the hash, so the list is in the
   reverse of the order of the additions; add_block processes it from the
   front, the transaction added last first. *)
C16_AddedAtFront ==
    [][/\ AddTransactionStep =>
             /\ Len(blk'[1].transactions) = Len(blk[1].transactions) + 1
             /\ Tail(blk'[1].transactions) = blk[1].transactions
             /\ blk'[1].hash = calculate_hash(blk'[1])
       /\ (/\ last'.op = "add_block"
           /\ Linked(chain, blk[1])
           /\ Len(blk[1].transactions) = 2) =>
             chain'.utxo_set =
                 ProcessOne(ProcessOne(chain.utxo_set, blk[1].transactions[1]),
                            blk[1].transactions[2])]_vars

(* an accepted block to which the issuance was added first and a spend of
   it second: the spend was processed first, so the issuance is in the
   index *)
C16_Witness ==
    /\ AddBlockCalled
    /\ Linked(last.pre, b_last)
    /\ Len(b_last.transactions) = 2
    /\ b_last.transactions[2] = Issuance
    /\ b_last.transactions[1].inputs # <<>>
    /\ b_last.transactions[1].inputs[1].prev_txid = Issuance.txid
    /\ Issuance.txid \notin DOMAIN last.pre.utxo_set
    /\ Issuance.txid \in DOMAIN chain.utxo_set

(* C17: an input that names an output the index does not hold is no error:
   the block is accepted if it is linked, the removal changes no other
   entry and the outputs of the transaction are inserted.  Stated for the
   blocks with a single transaction. *)
C17_AbsentInputIgnored ==
    (/\ AddBlockCalled
     /\ Linked(last.pre, b_last)
     /\ Len(b_last.transactions) = 1
     /\ \E i \in 1..Len(b_last.transactions[1].inputs) :
            b_last.transactions[1].inputs[i].prev_txid \notin DOMAIN last.pre.utxo_set) =>
        LET tx == b_last.transactions[1]
            txid == calculate_txid(tx)
            named == {tx.inputs[i].prev_txid : i \in 1..Len(tx.inputs)}
        IN  /\ get_block_count(chain) = get_block_count(last.pre) + 1
            /\ chain.blocks[Len(chain.blocks)] = b_last
            /\ \A k \in DOMAIN last.pre.utxo_set \ (named \cup {txid}) :
                   /\ k \in DOMAIN chain.utxo_set
                   /\ chain.utxo_set[k] = last.pre.utxo_set[k]
            /\ tx.outputs # <<>> =>
                   /\ txid \in DOMAIN chain.utxo_set
                   /\ \E i \in 1..Len(tx.outputs) : chain.utxo_set[txid] = tx.outputs[i]

(* the index held an entry, and a block was accepted whose transaction
   names an output nobody created *)
C17_Witness ==
    /\ AddBlockCalled
    /\ DOMAIN last.pre.utxo_set # {}
    /\ b_last.transactions = <<TestTransaction>>
    /\ DOMAIN last.pre.utxo_set \subseteq DOMAIN chain.utxo_set
    /\ calculate_txid(TestTransaction) \in DOMAIN chain.utxo_set
    /\ calculate_txid(TestTransaction) \notin DOMAIN last.pre.utxo_set

(* the ids get_transaction is asked for *)
QueryTxids ==
    {t.txid : t \in TransactionsIn(chain.blocks) \cup TransactionsIn(blk)}
      \cup {"", "prev_output"}

(* the positions of the blocks that hold a transaction with this id *)
Holders(blocks, txid) ==
    {i \in 1..Len(blocks) :
        \E k \in 1..Len(blocks[i].transactions) : blocks[i].transactions[k].txid = txid}

(* C18: get_transaction(txid) finds a transaction exactly when a block of
   the chain holds one whose txid field is the argument, and what it
   returns is the first such transaction of the earliest such block. *)
C18_GetTransactionScansInOrder ==
    \A txid \in QueryTxids :
        LET r == get_transaction(chain, txid)
            holders == Holders(chain.blocks, txid)
        IN  /\ r # None <=> holders # {}
            /\ r # None =>
                   LET e == CHOOSE i \in holders : \A j \in holders : i <= j
                       txs == chain.blocks[e].transactions
                       k == CHOOSE n \in 1..Len(txs) :
                                /\ txs[n].txid = txid
                                /\ \A m \in 1..(n - 1) : txs[m].txid # txid
                   IN  /\ r[1].txid = txid
                       /\ r = Some(txs[k])

(* two blocks hold the same transaction, the first block holds none of a
   third one *)
C18_Witness ==
    /\ get_block_count(chain) >= 2
    /\ \E txid \in QueryTxids : Holders(chain.blocks, txid) = {1, 2}
    /\ \E txid \in QueryTxids : Holders(chain.blocks, txid) = {}

(* C19: get_block_by_height(i) is the lookup by position: the block
   accepted i-th, counted from 0, when i is below the block count, absent
   otherwise, whatever the height field of the block. *)
C19_ByHeightIsByPosition ==
    \A n \in QueryHeights :
        get_block_by_height(chain, n) =
            IF n < get_block_count(chain) THEN Some(chain.blocks[n + 1]) ELSE None

(* a block whose height field is not its position *)
C19_Witness ==
    \E n \in QueryHeights :
        /\ get_block_by_height(chain, n) # None
        /\ get_block_by_height(chain, n)[1].height # n
        /\ get_block_by_height(chain, n)[1].height > 0

(* C20: every key of the UTXO index is the recomputed id of a transaction
   with at least one output that sits in a block of the chain; a rejected
   block contributes no key and a chain without transactions has an empty
   index. *)
C20_KeysAreTxids ==
    /\ \A k \in DOMAIN chain.utxo_set :
           \E t \in TransactionsIn(chain.blocks) :
               calculate_txid(t) = k /\ t.outputs # <<>>
    /\ TransactionsIn(chain.blocks) = {} => DOMAIN chain.utxo_set = {}

(* a rejected block carried a transaction with outputs whose id is no key,
   while the index holds a key *)
C20_Witness ==
    /\ AddBlockCalled
    /\ ~Linked(last.pre, b_last)
    /\ DOMAIN chain.utxo_set # {}
    /\ \E t \in TransactionsIn(last.block) :
           t.outputs # <<>> /\ calculate_txid(t) \notin DOMAIN chain.utxo_set

====
